---------------------------- MODULE Spec2Model ----------------------------
(***************************************************************************)
(* Word Stack Builder daily-challenge server (server.js).                  *)
(*                                                                         *)
(* The file holds two revisions of the server: the PostgreSQL one          *)
(* (lines 1-173, async handlers over pool.query) and the sqlite one        *)
(* (lines 175-364, callback handlers over db.run).  The model carries the  *)
(* revision as a variable fixed at start-up and follows whichever code     *)
(* that revision runs.                                                     *)
(*                                                                         *)
(* A JavaScript string is a sequence of one-character strings; a value of  *)
(* the request body is a record tagged with its JavaScript type.           *)
(***************************************************************************)
EXTENDS Integers, Sequences, FiniteSets, TLC

(***************************************************************************)
(* Bounds of the model.                                                    *)
(***************************************************************************)
MaxDay == 1
MaxReq == 2

Days == 0..MaxDay
Reqs == 1..MaxReq

(***************************************************************************)
(* State.                                                                  *)
(***************************************************************************)
VARIABLES
    revision,           \* "pg" (lines 1-173) or "sqlite" (lines 175-364)
    comprehensiveDict,  \* the dictionary loaded at start-up
    clients,            \* the request bodies the clients of this run post
    providers,          \* the state of the remote definition providers
    now,                \* the UTC calendar day of the system clock
    scores,             \* the rows of the scores table, in insertion order
    handlers,           \* per request: the handler's locals and its position
    running,            \* the request whose code occupies the thread, 0 if none
    serverUp,           \* FALSE once the process has exited
    callWord, callLetters, callResult   \* one call of canMakeWord and what it returned

fixed == <<revision, comprehensiveDict, clients, providers>>
call == <<callWord, callLetters, callResult>>
vars == <<revision, comprehensiveDict, clients, providers, now, scores, handlers,
          running, serverUp, callWord, callLetters, callResult>>

(***************************************************************************)
(* Characters and case conversion.                                         *)
(***************************************************************************)
LowerLetters ==
    <<"a","b","c","d","e","f","g","h","i","j","k","l","m",
      "n","o","p","q","r","s","t","u","v","w","x","y","z">>

UpperLetters ==
    <<"A","B","C","D","E","F","G","H","I","J","K","L","M",
      "N","O","P","Q","R","S","T","U","V","W","X","Y","Z">>

\* s.indexOf(c), counted from 1; 0 when c does not occur
IndexIn(c, s) ==
    LET hits == {k \in 1..Len(s) : s[k] = c}
    IN  IF hits = {} THEN 0 ELSE CHOOSE k \in hits : \A m \in hits : k <= m

UpperOf ==
    [c \in {LowerLetters[k] : k \in 1..26} |-> UpperLetters[IndexIn(c, LowerLetters)]]

LowerOf ==
    [c \in {UpperLetters[k] : k \in 1..26} |-> LowerLetters[IndexIn(c, UpperLetters)]]

charToUpperCase(c) == IF c \in DOMAIN UpperOf THEN UpperOf[c] ELSE c

charToLowerCase(c) == IF c \in DOMAIN LowerOf THEN LowerOf[c] ELSE c

toUpperCase(w) == [k \in 1..Len(w) |-> charToUpperCase(w[k])]

toLowerCase(w) == [k \in 1..Len(w) |-> charToLowerCase(w[k])]

(***************************************************************************)
(* 4. Game logic.                                                          *)
(***************************************************************************)
VOWELS == <<"A","E","I","O","U">>

CONSONANTS ==
    <<"B","C","D","F","G","H","I","J","K","L","M",
      "N","P","Q","R","S","T","V","W","X","Y","Z">>

\* splice that removes nothing: a letter of the pool serves again and again
spliceKeepsLetter(s, index) == s

\* tempLetters.splice(index, 1)
splice(s, index) == [k \in 1..(Len(s) - 1) |-> IF k < index THEN s[k] ELSE s[k + 1]]

\* tempLetters = letters: the pool itself under a second name
spreadAliased(letters) == [shared |-> TRUE, elems |-> letters]

\* [...letters]: a new array holding the elements of letters
spread(letters) == [shared |-> FALSE, elems |-> letters]

\* the for loop of canMakeWord: what it returns and tempLetters as it leaves it
RECURSIVE canMakeLoop(_, _)
canMakeLoop(chars, tempLetters) ==
    IF chars = <<>> THEN [result |-> TRUE, tempLetters |-> tempLetters]
    ELSE LET index == IndexIn(Head(chars), tempLetters)
         IN  IF index = 0 THEN [result |-> FALSE, tempLetters |-> tempLetters]
             ELSE canMakeLoop(Tail(chars), splice(tempLetters, index))

\* One call of canMakeWord: its result, and the caller's array letters after
\* the call.  splice works in place on tempLetters, so the caller's array is
\* touched exactly when tempLetters is the same array.
canMakeWordCall(word, letters) ==
    LET tempLetters == spread(letters)
        loop == canMakeLoop(toUpperCase(word), tempLetters.elems)
    IN  [result |-> loop.result,
         letters |-> IF tempLetters.shared THEN loop.tempLetters ELSE letters]

canMakeWord(word, letters) == canMakeWordCall(word, letters).result

(***************************************************************************)
(* seedrandom: a generator is its internal state; seedrandom(key) builds a *)
(* fresh generator from the seed string alone, rng() advances the state    *)
(* and returns a value of [0,1), kept as the numerator over RngRange.      *)
(* The library itself is not part of server.js: a linear congruential      *)
(* generator stands for it, deterministic in its seed as the library is.   *)
(***************************************************************************)
RngRange == 65536

\* seedrandom() called without its seed: the generator is seeded from the
\* entropy pool, here the number of requests the process has seen
seedrandomAutoSeeded(key) ==
    (33909 + 4099 * Cardinality({q \in Reqs : handlers[q].pc # "idle"})) % RngRange

seedrandom(key) == (key * 385 + 33909) % RngRange

rngAdvance(state) == (state * 97 + 53) % RngRange

\* Math.floor(rng() * n) for the generator value v
floorTimes(v, n) == (v * n) \div RngRange

\* the seed string seed + attempts: the date followed by one decimal digit
SeedKey(seed, attempts) == seed * 10 + attempts

swap(s, i, j) == [s EXCEPT ![i] = s[j], ![j] = s[i]]

RECURSIVE drawLetters(_, _, _, _)
drawLetters(alphabet, count, state, acc) ==
    IF count = 0 THEN [letters |-> acc, state |-> state]
    ELSE LET st == rngAdvance(state)
         IN  drawLetters(alphabet, count - 1, st,
                         Append(acc, alphabet[floorTimes(st, Len(alphabet)) + 1]))

RECURSIVE shuffle(_, _, _)
shuffle(currentLetters, i, state) ==
    IF i <= 1 THEN currentLetters
    ELSE LET st == rngAdvance(state)
             j  == floorTimes(st, i) + 1
         IN  shuffle(swap(currentLetters, i, j), i - 1, st)

vowelCountOf(state) == floorTimes(rngAdvance(state), 3) + 3

drawnLetters(state) ==
    LET vowelCount == vowelCountOf(state)
        vs == drawLetters(VOWELS, vowelCount, rngAdvance(state), <<>>)
    IN  drawLetters(CONSONANTS, 9 - vowelCount, vs.state, vs.letters)

generateLetters(state) ==
    LET drawn == drawnLetters(state)
    IN  shuffle(drawn.letters, Len(drawn.letters), drawn.state)

\* generateLetters(seedrandom(seed + attempts)) for every seed string the
\* model can form, with the letters as they were drawn before the shuffle
LetterSets ==
    [key \in 0..SeedKey(MaxDay + 1, 9) |->
        [drawn |-> drawnLetters(seedrandom(key)).letters,
         letters |-> generateLetters(seedrandom(key))]]

(***************************************************************************)
(* JavaScript values of a request body.                                    *)
(***************************************************************************)
Undefined == [t |-> "undefined"]
Null == [t |-> "null"]
Num(n) == [t |-> "number", n |-> n]
Str(s) == [t |-> "string", s |-> s]
Arr(a) == [t |-> "array", a |-> a]

\* !v is false
Truthy(v) ==
    \/ v.t = "string" /\ v.s # <<>>
    \/ v.t = "number" /\ v.n # 0
    \/ v.t = "array"

isArray(v) == v.t = "array"

(***************************************************************************)
(* Inputs: the word lists all_words.json may hold, and the request bodies  *)
(* clients send.                                                           *)
(***************************************************************************)
cat == <<"c","a","t">>
dog == <<"d","o","g">>
at == <<"a","t">>
cot == <<"c","o","t">>
comet == <<"c","o","m","e","t">>

WordLists ==
    { <<<<"C","a","t">>, dog, at>>,
      <<cat, <<"D","O","G">>, at, comet>> }

\* foundWords with one entry more than the 200 the documentation allows
OversizedWords == [k \in 1..201 |-> Str(cat)]

bo == Str(<<"b","o">>)

Bodies ==
    { [name |-> Undefined, foundWords |-> Arr(<<Str(cat)>>)],
      [name |-> Str(<<>>), foundWords |-> Arr(<<Str(cat)>>)],
      [name |-> bo, foundWords |-> Undefined],
      [name |-> Str(<<" ","a","l">>), foundWords |-> Arr(<<Str(cat), Str(cat), Str(dog)>>)],
      [name |-> bo, foundWords |-> Arr(<<Str(<<"C","A","T">>), Str(at), Str(<<"c","A","t">>)>>)],
      [name |-> bo, foundWords |-> Arr(<<Str(cat), Num(5), Str(dog)>>)],
      [name |-> Str(<<" "," ">>), foundWords |-> Arr(<<Str(cot), Str(dog)>>)] }

OversizedBody == [name |-> bo, foundWords |-> Arr(OversizedWords)]

\* the state of the two definition providers while a body is handled
ProvidersFor(body) ==
    IF body.foundWords = Arr(<<Str(cot), Str(dog)>>)
    THEN <<"timeout", "success">> ELSE <<"success", "success">>

\* set.has(w) on a Set kept as the sequence of its elements in insertion order
has(set, w) == \E k \in 1..Len(set) : set[k] = w

\* set.add(w)
add(set, w) == IF has(set, w) THEN set ELSE Append(set, w)

RECURSIVE newSet(_, _)
newSet(values, set) ==
    IF values = <<>> THEN set ELSE newSet(Tail(values), add(set, Head(values)))

\* comprehensiveDict = new Set(words.map(w => w.toLowerCase()))
LoadDictionary(words) == newSet([k \in 1..Len(words) |-> toLowerCase(words[k])], <<>>)

\* for (const word of comprehensiveDict), from the k-th word on: what
\* isDailySetValid returns and the array letters as the calls leave it
RECURSIVE dailySetScan(_, _, _)
dailySetScan(dict, k, letters) ==
    IF k > Len(dict) THEN [result |-> FALSE, letters |-> letters]
    ELSE IF Len(dict[k]) >= 5
         THEN LET made == canMakeWordCall(dict[k], letters)
              IN  IF made.result THEN [result |-> TRUE, letters |-> made.letters]
                  ELSE dailySetScan(dict, k + 1, made.letters)
         ELSE dailySetScan(dict, k + 1, letters)

isDailySetValidCall(letters) == dailySetScan(comprehensiveDict, 1, letters)

\* return false moved into the loop: the first word alone decides
isDailySetValidFirstWord(letters) ==
    /\ comprehensiveDict # <<>>
    /\ Len(comprehensiveDict[1]) >= 5
    /\ canMakeWord(comprehensiveDict[1], letters)

isDailySetValid(letters) == isDailySetValidCall(letters).result

getTodayDateString == now

NoHandler ==
    [ kind |-> "none", pc |-> "idle",
      name |-> Undefined, foundWords |-> Undefined,
      seed |-> 0, attempts |-> 0, dailyLetters |-> <<>>,
      serverCalculatedScore |-> 0, validatedWords |-> {}, today |-> 0,
      generated |-> <<>>, err |-> "none",
      status |-> 0, validatedScore |-> 0, letters |-> <<>>,
      sent |-> 0, seen |-> 0, rows |-> <<>> ]

InitServer ==
    /\ revision \in {"pg", "sqlite"}
    /\ \E words \in WordLists : comprehensiveDict = LoadDictionary(words)
    /\ now \in Days
    /\ scores = <<>>
    /\ handlers = [r \in Reqs |-> NoHandler]
    /\ running = 0
    /\ serverUp = TRUE

Init ==
    /\ InitServer
    /\ \E body \in Bodies : clients = {body} /\ providers = ProvidersFor(body)
    /\ callWord = <<>> /\ callLetters = <<>> /\ callResult = <<>>

\* a new request is dispatched when the thread is free
CanDispatch(r) ==
    /\ serverUp
    /\ running = 0
    /\ handlers[r].pc = "idle"
    /\ \A q \in Reqs : q < r => handlers[q].pc # "idle"

\* the clock passes midnight
Tick ==
    /\ now < MaxDay
    /\ now' = now + 1
    /\ UNCHANGED <<fixed, scores, handlers, running, serverUp, call>>

(***************************************************************************)
(* GET /api/daily-challenge                                                *)
(***************************************************************************)
\* the loop test without its validity half: every attempt is made
ChallengeLoopCondCountOnly(dailyLetters, attempts) == attempts < 10

\* the loop test one off: an eleventh attempt is made
ChallengeLoopCondOneMore(dailyLetters, attempts) ==
    ~isDailySetValid(dailyLetters) /\ attempts <= 10

\* while (!isDailySetValid(dailyLetters) && attempts < 10)
ChallengeLoopCond(dailyLetters, attempts) ==
    ~isDailySetValid(dailyLetters) /\ attempts < 10

\* The do-while loop entered with the given attempts: its last dailyLetters,
\* as the loop test leaves that array, and the attempts it leaves.  generated
\* is the history of the loop: each attempt number handed to seedrandom and
\* the letters generateLetters returned.
RECURSIVE challengeLoop(_, _, _)
challengeLoop(seed, attempts0, generated0) ==
    LET made == LetterSets[SeedKey(seed, attempts0)]
        dailyLetters == made.letters
        attempts == attempts0 + 1
        generated == Append(generated0, [attempt |-> attempts0,
                                         letters |-> dailyLetters])
        tested == isDailySetValidCall(dailyLetters)
    IN  IF ChallengeLoopCond(dailyLetters, attempts)
        THEN challengeLoop(seed, attempts, generated)
        ELSE [dailyLetters |-> tested.letters, attempts |-> attempts,
              generated |-> generated]

\* the handler is synchronous: it runs to its response in one piece
Challenge(r) ==
    /\ CanDispatch(r)
    /\ LET seed == getTodayDateString
           loop == challengeLoop(seed, 0, <<>>)
       IN  handlers' = [handlers EXCEPT ![r] =
                          [NoHandler EXCEPT !.kind = "challenge", !.pc = "done",
                                            !.seed = seed,
                                            !.attempts = loop.attempts,
                                            !.dailyLetters = loop.dailyLetters,
                                            !.generated = loop.generated,
                                            !.status = 200,
                                            !.letters = loop.dailyLetters,
                                            !.sent = 1]]
    /\ UNCHANGED <<fixed, now, scores, running, serverUp, call>>

(***************************************************************************)
(* POST /api/daily-challenge/score                                         *)
(***************************************************************************)
\* the check with && for ||: one good half lets the payload through
InvalidDataBothBad(name, foundWords) == ~Truthy(name) /\ ~isArray(foundWords)

\* if (!name || !Array.isArray(foundWords))
InvalidData(name, foundWords) == ~Truthy(name) \/ ~isArray(foundWords)

\* the submission's loop with a bound of its own
ScoreLoopCondNine(dailyLetters, attempts) ==
    ~isDailySetValid(dailyLetters) /\ attempts < 9

ScoreLoopCond(dailyLetters, attempts) ==
    ~isDailySetValid(dailyLetters) /\ attempts < 10

RECURSIVE scoreDailyLoop(_, _, _)
scoreDailyLoop(seed, attempts0, generated0) ==
    LET made == LetterSets[SeedKey(seed, attempts0)]
        dailyLetters == made.letters
        attempts == attempts0 + 1
        generated == Append(generated0, [attempt |-> attempts0,
                                         letters |-> dailyLetters])
        tested == isDailySetValidCall(dailyLetters)
    IN  IF ScoreLoopCond(dailyLetters, attempts)
        THEN scoreDailyLoop(seed, attempts, generated)
        ELSE [dailyLetters |-> tested.letters, attempts |-> attempts,
              generated |-> generated]

\* the condition without the test of the accepted-word set
WordCountsAgain(lowerCaseWord, dailyLetters, validatedWords) ==
    /\ revision = "sqlite" => Len(lowerCaseWord) >= 3
    /\ has(comprehensiveDict, lowerCaseWord)
    /\ canMakeWord(lowerCaseWord, dailyLetters)

\* the condition of the scoring loop's if; the sqlite revision adds the length test
WordCounts(lowerCaseWord, dailyLetters, validatedWords) ==
    /\ revision = "sqlite" => Len(lowerCaseWord) >= 3
    /\ has(comprehensiveDict, lowerCaseWord)
    /\ canMakeWord(lowerCaseWord, dailyLetters)
    /\ lowerCaseWord \notin validatedWords

\* the && chain of the scoring loop's if comes to its canMakeWord call
reachesCanMakeWord(lowerCaseWord) ==
    /\ revision = "sqlite" => Len(lowerCaseWord) >= 3
    /\ has(comprehensiveDict, lowerCaseWord)

\* One pass of the body of for (const word of foundWords): word.toLowerCase()
\* throws a TypeError on a value that has no such method.  acc.dailyLetters is
\* the array dailyLetters as the calls of canMakeWord have left it so far.
scoreStep(w, acc) ==
    IF w.t # "string" THEN [acc EXCEPT !.threw = TRUE]
    ELSE LET lowerCaseWord == toLowerCase(w.s)
             tested == IF reachesCanMakeWord(lowerCaseWord)
                       THEN canMakeWordCall(lowerCaseWord, acc.dailyLetters).letters
                       ELSE acc.dailyLetters
         IN  IF WordCounts(lowerCaseWord, acc.dailyLetters, acc.validatedWords)
             THEN [acc EXCEPT !.serverCalculatedScore = @ + Len(lowerCaseWord),
                              !.validatedWords = @ \cup {lowerCaseWord},
                              !.dailyLetters = tested]
             ELSE [acc EXCEPT !.dailyLetters = tested]

\* The passes over foundWords[lo..hi] in order, left at the first throw.  The
\* range is halved so that the evaluation of a long array stays shallow; the
\* passes run in array order all the same.
RECURSIVE scoreLoop(_, _, _, _)
scoreLoop(foundWords, lo, hi, acc) ==
    IF acc.threw \/ lo > hi THEN acc
    ELSE IF lo = hi THEN scoreStep(foundWords[lo], acc)
    ELSE LET mid == (lo + hi) \div 2
             left == scoreLoop(foundWords, lo, mid, acc)
         IN  scoreLoop(foundWords, mid + 1, hi, left)

\* for...of visits the elements of an array and the characters of a string;
\* on any other value of a body it throws a TypeError
iterable(v) == v.t \in {"array", "string"}

valuesOf(v) == IF v.t = "array" THEN v.a ELSE [k \in 1..Len(v.s) |-> Str(<<v.s[k]>>)]

\* lines 148-156, entered with the value foundWords of the body
scoreWords(foundWords, dailyLetters) ==
    LET entered == [serverCalculatedScore |-> 0, validatedWords |-> {},
                    threw |-> FALSE, dailyLetters |-> dailyLetters]
    IN  IF iterable(foundWords)
        THEN scoreLoop(valuesOf(foundWords), 1, Len(valuesOf(foundWords)), entered)
        ELSE [entered EXCEPT !.threw = TRUE]

\* the payload check fails: 400 and return
ScoreReject(r, body) ==
    /\ CanDispatch(r)
    /\ body \in clients
    /\ InvalidData(body.name, body.foundWords)
    /\ handlers' = [handlers EXCEPT ![r] =
                      [NoHandler EXCEPT !.kind = "score", !.pc = "done",
                                        !.name = body.name,
                                        !.foundWords = body.foundWords,
                                        !.status = 400,
                                        !.sent = 1]]
    /\ UNCHANGED <<fixed, now, scores, running, serverUp, call>>

\* the handler up to the end of the scoring loop: the payload check passes,
\* the day's letters are regenerated and the words are scored
ScoreCompute(r, body) ==
    /\ CanDispatch(r)
    /\ body \in clients
    /\ ~InvalidData(body.name, body.foundWords)
    /\ LET seed == getTodayDateString
           loop == scoreDailyLoop(seed, 0, <<>>)
           res == scoreWords(body.foundWords, loop.dailyLetters)
       IN  /\ ~res.threw
           /\ handlers' = [handlers EXCEPT ![r] =
                  [NoHandler EXCEPT !.kind = "score", !.pc = "scored",
                                    !.name = body.name,
                                    !.foundWords = body.foundWords,
                                    !.seed = seed,
                                    !.attempts = loop.attempts,
                                    !.dailyLetters = res.dailyLetters,
                                    !.generated = loop.generated,
                                    !.serverCalculatedScore = res.serverCalculatedScore,
                                    !.validatedWords = res.validatedWords]]
    /\ running' = r
    /\ UNCHANGED <<fixed, now, scores, serverUp, call>>

\* What becomes of a TypeError thrown in the handler.  The sqlite handler is
\* synchronous: the router catches the error and answers 500.  The pg handler
\* is async: its promise rejects, and the router either answers 500 (it
\* awaits handlers), leaves the request unanswered, or the unhandled
\* rejection ends the process.
ThrowOutcomes ==
    IF revision = "sqlite" THEN {"500"} ELSE {"500", "hang", "exit"}

\* the same, the scoring loop ending in a TypeError
ScoreThrow(r, body, outcome) ==
    /\ CanDispatch(r)
    /\ body \in clients
    /\ ~InvalidData(body.name, body.foundWords)
    /\ outcome \in ThrowOutcomes
    /\ LET seed == getTodayDateString
           loop == scoreDailyLoop(seed, 0, <<>>)
           res == scoreWords(body.foundWords, loop.dailyLetters)
       IN  /\ res.threw
           /\ handlers' = [handlers EXCEPT ![r] =
                  [NoHandler EXCEPT !.kind = "score",
                                    !.pc = IF outcome = "500" THEN "done" ELSE "hung",
                                    !.name = body.name,
                                    !.foundWords = body.foundWords,
                                    !.seed = seed,
                                    !.attempts = loop.attempts,
                                    !.dailyLetters = res.dailyLetters,
                                    !.generated = loop.generated,
                                    !.serverCalculatedScore = res.serverCalculatedScore,
                                    !.validatedWords = res.validatedWords,
                                    !.err = "TypeError",
                                    !.status = IF outcome = "500" THEN 500 ELSE 0,
                                    !.sent = IF outcome = "500" THEN 1 ELSE 0]]
    /\ serverUp' = (outcome # "exit")
    /\ UNCHANGED <<fixed, now, scores, running, call>>

\* the query without its await: the 201 goes out as soon as the insert is sent
ScorePersistNoAwait(r) ==
    /\ running = r
    /\ handlers[r].pc = "scored"
    /\ handlers' = [handlers EXCEPT
                      ![r].today = getTodayDateString,
                      ![r].pc = "query",
                      ![r].status = 201,
                      ![r].validatedScore = handlers[r].serverCalculatedScore,
                      ![r].sent = @ + 1]
    /\ running' = 0
    /\ UNCHANGED <<fixed, now, scores, serverUp, call>>

\* const today = getTodayDateString(); the insert is sent and the handler
\* yields the thread
ScorePersist(r) ==
    /\ running = r
    /\ handlers[r].pc = "scored"
    /\ handlers' = [handlers EXCEPT ![r].today = getTodayDateString,
                                    ![r].pc = "query"]
    /\ running' = 0
    /\ UNCHANGED <<fixed, now, scores, serverUp, call>>

\* an insert that replaces the player's latest row when there is one
DbInsertOrReplace(r) ==
    /\ handlers[r].pc = "query"
    /\ handlers[r].name.t = "string"
    /\ LET row == [name |-> handlers[r].name.s,
                   score |-> handlers[r].serverCalculatedScore,
                   date |-> handlers[r].today,
                   by |-> r]
           same == {k \in 1..Len(scores) : scores[k].name = row.name}
       IN  scores' = IF same = {} THEN Append(scores, row)
                     ELSE [scores EXCEPT ![CHOOSE k \in same : \A m \in same : m <= k] = row]
    /\ handlers' = [handlers EXCEPT ![r].pc = "inserted"]
    /\ UNCHANGED <<fixed, now, running, serverUp, call>>

\* the store executes INSERT INTO scores (name, score, date); by is the
\* request whose query made the row.  The column name is NOT NULL: the store
\* takes no row without a name.
DbInsert(r) ==
    /\ handlers[r].pc = "query"
    /\ handlers[r].name.t = "string"
    /\ scores' = Append(scores, [name |-> handlers[r].name.s,
                                 score |-> handlers[r].serverCalculatedScore,
                                 date |-> handlers[r].today,
                                 by |-> r])
    /\ handlers' = [handlers EXCEPT ![r].pc = "inserted"]
    /\ UNCHANGED <<fixed, now, running, serverUp, call>>

\* the store fails the insert
DbError(r) ==
    /\ handlers[r].pc = "query"
    /\ handlers' = [handlers EXCEPT ![r].pc = "failed", ![r].err = "store"]
    /\ UNCHANGED <<fixed, now, scores, running, serverUp, call>>

\* the continuation that never looks at the error: 201 whatever the store said
ScoreRespondIgnoresErr(r) ==
    /\ serverUp
    /\ running = 0
    /\ handlers[r].pc \in {"inserted", "failed"}
    /\ handlers' = [handlers EXCEPT
                      ![r].pc = "done",
                      ![r].status = 201,
                      ![r].validatedScore = handlers[r].serverCalculatedScore,
                      ![r].sent = @ + 1]
    /\ UNCHANGED <<fixed, now, scores, running, serverUp, call>>

\* the continuation after the await (pg) or the db.run callback (sqlite)
ScoreRespond(r) ==
    /\ serverUp
    /\ running = 0
    /\ handlers[r].pc \in {"inserted", "failed"}
    /\ handlers' = [handlers EXCEPT
                      ![r].pc = "done",
                      ![r].status = IF handlers[r].pc = "inserted" THEN 201 ELSE 500,
                      ![r].validatedScore = IF handlers[r].pc = "inserted"
                                            THEN handlers[r].serverCalculatedScore ELSE 0,
                      ![r].sent = @ + 1]
    /\ UNCHANGED <<fixed, now, scores, running, serverUp, call>>

(***************************************************************************)
(* GET /api/daily-challenge/leaderboard                                    *)
(***************************************************************************)
LeaderboardLimit == 20

\* ORDER BY score DESC LIMIT n over the rows ids of the table: every sequence
\* of row ids the store may answer with.  SQL leaves the order of rows of
\* equal score to the store, so each such order is an answer.
RECURSIVE orderByScoreDesc(_, _, _)
orderByScoreDesc(table, ids, n) ==
    IF n = 0 \/ ids = {} THEN {<<>>}
    ELSE LET top == {k \in ids : \A m \in ids : table[k].score >= table[m].score}
         IN  UNION {{<<k>> \o rest : rest \in orderByScoreDesc(table, ids \ {k}, n - 1)} :
                        k \in top}

\* the select without its WHERE clause
selectLeaderboardAllDates(table, today) ==
    orderByScoreDesc(table, 1..Len(table), LeaderboardLimit)

\* SELECT name, score FROM scores WHERE date = ? ORDER BY score DESC LIMIT 20
selectLeaderboard(table, today) ==
    orderByScoreDesc(table, {k \in 1..Len(table) : table[k].date = today},
                     LeaderboardLimit)

\* the handler reads the date, sends the query and yields the thread
LeaderboardQuery(r) ==
    /\ CanDispatch(r)
    /\ handlers' = [handlers EXCEPT ![r] =
                      [NoHandler EXCEPT !.kind = "leaderboard", !.pc = "select",
                                        !.today = getTodayDateString]]
    /\ UNCHANGED <<fixed, now, scores, running, serverUp, call>>

\* the store executes the select; rows holds the ids of the rows it answers
\* with, in order, and seen the size of the table it read
DbSelect(r) ==
    /\ handlers[r].pc = "select"
    /\ \E rows \in selectLeaderboard(scores, handlers[r].today) :
          handlers' = [handlers EXCEPT ![r].pc = "selected",
                                       ![r].rows = rows,
                                       ![r].seen = Len(scores)]
    /\ UNCHANGED <<fixed, now, scores, running, serverUp, call>>

\* the store fails the select
DbSelectError(r) ==
    /\ handlers[r].pc = "select"
    /\ handlers' = [handlers EXCEPT ![r].pc = "selectFailed", ![r].err = "store"]
    /\ UNCHANGED <<fixed, now, scores, running, serverUp, call>>

\* res.json(rows), or 500 on err
LeaderboardRespond(r) ==
    /\ serverUp
    /\ running = 0
    /\ handlers[r].pc \in {"selected", "selectFailed"}
    /\ handlers' = [handlers EXCEPT
                      ![r].pc = "done",
                      ![r].status = IF handlers[r].pc = "selected" THEN 200 ELSE 500,
                      ![r].sent = @ + 1]
    /\ UNCHANGED <<fixed, now, scores, running, serverUp, call>>

\* the server under clients of the two daily-challenge endpoints
Next ==
    \/ Tick
    \/ \E r \in Reqs : Challenge(r)
    \/ \E r \in Reqs : \E body \in clients : ScoreReject(r, body)
    \/ \E r \in Reqs : \E body \in clients : ScoreCompute(r, body)
    \/ \E r \in Reqs : \E body \in clients : \E outcome \in {"500", "hang", "exit"} :
          ScoreThrow(r, body, outcome)
    \/ \E r \in Reqs : ScorePersist(r)
    \/ \E r \in Reqs : DbInsert(r)
    \/ \E r \in Reqs : DbError(r)
    \/ \E r \in Reqs : ScoreRespond(r)

Spec == Init /\ [][Next]_vars

(***************************************************************************)
(* The server under clients that post the oversized body: its payload      *)
(* passes the check of line 135 and holds strings only, so the handler     *)
(* neither rejects nor throws.                                             *)
(***************************************************************************)
InitOversized ==
    /\ InitServer
    /\ clients = {OversizedBody} /\ providers = ProvidersFor(OversizedBody)
    /\ callWord = <<>> /\ callLetters = <<>> /\ callResult = <<>>

NextOversized ==
    \/ Tick
    \/ \E r \in Reqs : Challenge(r)
    \/ \E r \in Reqs : \E body \in clients : ScoreCompute(r, body)
    \/ \E r \in Reqs : ScorePersist(r)
    \/ \E r \in Reqs : DbInsert(r)
    \/ \E r \in Reqs : DbError(r)
    \/ \E r \in Reqs : ScoreRespond(r)

SpecOversized == InitOversized /\ [][NextOversized]_vars

(***************************************************************************)
(* The server in service: the scores table holds the rows of earlier       *)
(* submissions.  Under SpecPair the clients of a run post different        *)
(* bodies; under SpecBoard they post one body and read the leaderboard.    *)
(***************************************************************************)
MaxStored == 24

al == Str(<<" ","a","l">>)

\* The row the k-th earlier submission left: the scores are distinct but for
\* rows 1 and 2, and every eighth row is of day 1.
StoredRow(k) ==
    [name |-> IF k % 2 = 0 THEN bo.s ELSE al.s,
     score |-> IF k <= 2 THEN 4 ELSE 2 * k + 1,
     date |-> IF k % 8 = 0 THEN 1 ELSE 0,
     by |-> 0]

StoredRows == [k \in 1..MaxStored |-> StoredRow(k)]

alCatCatDog == [name |-> al, foundWords |-> Arr(<<Str(cat), Str(cat), Str(dog)>>)]

boCatAtCat ==
    [name |-> bo,
     foundWords |-> Arr(<<Str(<<"C","A","T">>), Str(at), Str(<<"c","A","t">>)>>)]

boNoWords == [name |-> bo, foundWords |-> Undefined]

boCatFiveDog == [name |-> bo, foundWords |-> Arr(<<Str(cat), Num(5), Str(dog)>>)]

noNameCat == [name |-> Undefined, foundWords |-> Arr(<<Str(cat)>>)]

InitStored ==
    /\ revision \in {"pg", "sqlite"}
    /\ comprehensiveDict = LoadDictionary(<<cat, <<"D","O","G">>, at, comet>>)
    /\ now \in Days
    /\ scores = StoredRows
    /\ handlers = [r \in Reqs |-> NoHandler]
    /\ running = 0
    /\ serverUp = TRUE
    /\ providers = <<"success", "success">>
    /\ callWord = <<>> /\ callLetters = <<>> /\ callResult = <<>>

InitPair ==
    /\ InitStored
    /\ clients \in {{alCatCatDog, boCatAtCat},
                    {alCatCatDog, boNoWords, noNameCat, boCatFiveDog}}

SpecPair == InitPair /\ [][Next]_vars

InitBoard ==
    /\ InitStored
    /\ clients \in {{alCatCatDog}, {boNoWords}, {boCatFiveDog}}

NextBoard ==
    \/ Next
    \/ \E r \in Reqs : LeaderboardQuery(r)
    \/ \E r \in Reqs : DbSelect(r)
    \/ \E r \in Reqs : DbSelectError(r)
    \/ \E r \in Reqs : LeaderboardRespond(r)

SpecBoard == InitBoard /\ [][NextBoard]_vars

(***************************************************************************)
(* canMakeWord on its own: one call on a word and a pool drawn from the    *)
(* bounded sets below; callResult is empty until the call has returned.        *)
(***************************************************************************)
MaxWordLen == 3
MaxPoolLen == 3

SeqsUpTo(S, n) == UNION {[1..k -> S] : k \in 0..n}

InitCanMake ==
    /\ revision = "pg"
    /\ comprehensiveDict = <<>>
    /\ clients = {}
    /\ providers = <<"success", "success">>
    /\ now = 0
    /\ scores = <<>>
    /\ handlers = [r \in Reqs |-> NoHandler]
    /\ running = 0
    /\ serverUp = TRUE
    /\ callWord \in SeqsUpTo({"b", "e", "E"}, MaxWordLen)
    /\ callLetters \in SeqsUpTo({"B", "E", "b"}, MaxPoolLen)
    /\ callResult = <<>>

CallCanMakeWord ==
    /\ callResult = <<>>
    /\ LET made == canMakeWordCall(callWord, callLetters)
       IN  /\ callResult' = <<made.result>>
           /\ callLetters' = made.letters
    /\ UNCHANGED <<fixed, now, scores, handlers, running, serverUp, callWord>>

SpecCanMake == InitCanMake /\ [][CallCanMakeWord]_vars

(***************************************************************************)
(* isDailySetValid on its own: one call on a LetterSet, under a dictionary *)
(* loaded from a word list of up to MaxDictLen words in some order.        *)
(***************************************************************************)
MaxDictLen == 3

coat == <<"c","o","a","t">>
zebra == <<"z","e","b","r","a">>
hotdog == <<"h","o","t","d","o","g">>

\* the word lists without a repeated word
WordOrders(S, n) ==
    {q \in SeqsUpTo(S, n) : \A i \in 1..Len(q) : \A j \in 1..Len(q) : i # j => q[i] # q[j]}

InitValid ==
    /\ revision = "pg"
    /\ \E words \in WordOrders({at, coat, comet, zebra, hotdog}, MaxDictLen) :
          comprehensiveDict = LoadDictionary(words)
    /\ clients = {}
    /\ providers = <<"success", "success">>
    /\ now = 0
    /\ scores = <<>>
    /\ handlers = [r \in Reqs |-> NoHandler]
    /\ running = 0
    /\ serverUp = TRUE
    /\ callWord = <<>>
    /\ callLetters \in {LetterSets[SeedKey(0, 0)].letters,
                        LetterSets[SeedKey(0, 9)].letters,
                        LetterSets[SeedKey(1, 0)].letters}
    /\ callResult = <<>>

CallIsDailySetValid ==
    /\ callResult = <<>>
    /\ callResult' = <<isDailySetValid(callLetters)>>
    /\ callLetters' = isDailySetValidCall(callLetters).letters
    /\ UNCHANGED <<fixed, now, scores, handlers, running, serverUp, callWord>>

SpecValid == InitValid /\ [][CallIsDailySetValid]_vars

(***************************************************************************)
(* Vocabulary of the properties.                                           *)
(***************************************************************************)
\* the words of the dictionary
DictWords == {comprehensiveDict[k] : k \in 1..Len(comprehensiveDict)}

Count(c, s) == Cardinality({k \in 1..Len(s) : s[k] = c})

\* w is a sub-multiset of pool
SubMultiset(w, pool) == \A k \in 1..Len(w) : Count(w[k], w) <= Count(w[k], pool)

SameMultiset(s, t) ==
    /\ Len(s) = Len(t)
    /\ \A k \in 1..Len(s) : Count(s[k], s) = Count(s[k], t)

Formable(w, pool) == SubMultiset(toUpperCase(w), pool)

IsVowel(c) == c \in {"A", "E", "I", "O", "U"}

IsConsonant(c) ==
    c \in {"B","C","D","F","G","H","J","K","L","M","N","P","Q","R","S","T",
           "V","W","X","Y","Z"}

VowelsIn(s) == Cardinality({k \in 1..Len(s) : IsVowel(s[k])})

ConsonantsIn(s) == Cardinality({k \in 1..Len(s) : IsConsonant(s[k])})

RECURSIVE SumLen(_)
SumLen(S) ==
    IF S = {} THEN 0
    ELSE LET w == CHOOSE x \in S : TRUE IN Len(w) + SumLen(S \ {w})

\* the handler of r has run its retry loop
RanLoop(r) == handlers[r].generated # <<>>

\* the handler of r is a submission whose scoring loop ran to its end
Scored(r) ==
    /\ handlers[r].kind = "score"
    /\ handlers[r].pc \in {"scored", "query", "inserted", "failed", "done"}
    /\ handlers[r].status # 400
    /\ handlers[r].err # "TypeError"

\* the submission of r passed the payload check
Admitted(r) ==
    /\ handlers[r].kind = "score"
    /\ ~InvalidData(handlers[r].name, handlers[r].foundWords)

\* the body of r has no name, or its foundWords is no array
Malformed(r) ==
    /\ handlers[r].kind = "score"
    /\ \/ handlers[r].name.t \in {"undefined", "null"}
       \/ handlers[r].name = Str(<<>>)
       \/ handlers[r].foundWords.t # "array"

\* the store failed the insert of r
InsertFailed(r) == handlers[r].kind = "score" /\ handlers[r].err = "store"

\* the leaderboard request r was answered with rows
Listed(r) == handlers[r].kind = "leaderboard" /\ handlers[r].status = 200

\* s without the spaces at its two ends
RECURSIVE Trimmed(_)
Trimmed(s) ==
    IF s = <<>> THEN s
    ELSE IF Head(s) = " " THEN Trimmed(Tail(s))
    ELSE IF s[Len(s)] = " " THEN Trimmed(SubSeq(s, 1, Len(s) - 1))
    ELSE s

StringEntries(a) == {k \in 1..Len(a) : a[k].t = "string"}

AllStrings(a) == StringEntries(a) = 1..Len(a)

RowsBy(r) == {k \in 1..Len(scores) : scores[k].by = r}

\* the LetterSet generateLetters returns on the stream seeded with seed+attempt
LetterSetFor(seed, attempt) == LetterSets[SeedKey(seed, attempt)].letters

ValidAttempts(seed) == {a \in 0..9 : isDailySetValid(LetterSetFor(seed, a))}

Least(S) == CHOOSE a \in S : \A b \in S : a <= b

\* the LetterSet of the day seed, worked out from the day alone
LettersOfDay(seed) ==
    LET valid == ValidAttempts(seed)
    IN  LetterSetFor(seed, IF valid = {} THEN 9 ELSE Least(valid))

\* the distinct lowercased string entries of a that are dictionary words
\* formable from pool
DistinctGoodWords(a, pool) ==
    {w \in {toLowerCase(a[k].s) : k \in StringEntries(a)} :
        w \in DictWords /\ Formable(w, pool)}

(***************************************************************************)
(* The properties.                                                         *)
(***************************************************************************)

C2_LetterSetShape ==
    \A r \in Reqs : \A i \in 1..Len(handlers[r].generated) :
        LET g == handlers[r].generated[i]
        IN  /\ Len(g.letters) = 9
            /\ VowelsIn(g.letters) \in 3..5
            /\ ConsonantsIn(g.letters) = 9 - VowelsIn(g.letters)
            /\ \A k \in 1..Len(g.letters) :
                  IsVowel(g.letters[k]) \/ IsConsonant(g.letters[k])
            /\ SameMultiset(LetterSets[SeedKey(handlers[r].seed, g.attempt)].drawn,
                            g.letters)

\* C3: canMakeWord(word, letters) is true exactly when the uppercased word
\* is a sub-multiset of letters.
C3_CanMakeWordIsSubMultiset ==
    callResult # <<>> =>
        callResult[1] = SubMultiset(toUpperCase(callWord), callLetters)

\* "bee" against [B, E] was refused
C3_Witness ==
    /\ callWord = <<"b", "e", "e">>
    /\ callLetters = <<"B", "E">>
    /\ callResult = <<FALSE>>

\* C4: when some attempt in 0..9 generates a valid LetterSet, the retry loop
\* yields the LetterSet of the smallest such attempt, which is valid; the
\* attempts were made in the order 0, 1, 2, ... and none after that one.
C4_RetryYieldsFirstValid ==
    \A r \in Reqs :
        RanLoop(r) =>
            LET h == handlers[r]
                valid == ValidAttempts(h.seed)
                first == Least(valid)
            IN  valid # {} =>
                    /\ h.dailyLetters = LetterSetFor(h.seed, first)
                    /\ isDailySetValid(h.dailyLetters)
                    /\ h.attempts = first + 1
                    /\ Len(h.generated) = first + 1
                    /\ \A i \in 1..Len(h.generated) : h.generated[i].attempt = i - 1

\* a loop has ended on its fifth attempt, the first valid one
C4_Witness ==
    \E r \in Reqs :
        /\ RanLoop(r)
        /\ handlers[r].attempts = 5
        /\ isDailySetValid(handlers[r].dailyLetters)

\* C5: with a dictionary that has no word of length >= 5 the retry loop ends
\* after exactly 10 invocations of the generator, attempts 0 to 9, yields the
\* LetterSet of attempt 9 and raises nothing: the GET answers 200 with it.
C5_NoLongWordTenAttempts ==
    (\A w \in DictWords : Len(w) < 5) =>
        \A r \in Reqs :
            RanLoop(r) =>
                LET h == handlers[r]
                IN  /\ Len(h.generated) = 10
                    /\ \A i \in 1..Len(h.generated) : h.generated[i].attempt = i - 1
                    /\ h.attempts = 10
                    /\ h.dailyLetters = LetterSetFor(h.seed, 9)
                    /\ h.kind = "challenge" =>
                          (h.status = 200 /\ h.letters = h.dailyLetters)

\* a GET was answered under a dictionary without long words
C5_Witness ==
    /\ \A w \in DictWords : Len(w) < 5
    /\ \E r \in Reqs : handlers[r].kind = "challenge" /\ handlers[r].status = 200

C7_ScoredAgainstServerLetters ==
    \A r1 \in Reqs : \A r2 \in Reqs :
        (/\ handlers[r1].kind = "score" /\ RanLoop(r1)
         /\ RanLoop(r2)
         /\ handlers[r1].seed = handlers[r2].seed) =>
            /\ handlers[r1].dailyLetters = handlers[r2].dailyLetters
            /\ handlers[r2].kind = "challenge" =>
                  handlers[r1].dailyLetters = handlers[r2].letters

\* a submission was scored on a day whose letters a GET has returned
C7_Witness ==
    \E r1 \in Reqs : \E r2 \in Reqs :
        /\ Scored(r1)
        /\ handlers[r2].kind = "challenge" /\ handlers[r2].status = 200
        /\ handlers[r1].seed = handlers[r2].seed

\* C8: a submitted word that is not in the local dictionary is accepted when
\* provider 1 times out and provider 2 succeeds (and counted if it is formable
\* and no repeat).
C8_ProviderFallbackAccepts ==
    \A r \in Reqs :
        (Scored(r) /\ providers = <<"timeout", "success">>) =>
            LET h == handlers[r]
                a == h.foundWords.a
            IN  \A k \in StringEntries(a) :
                    (/\ toLowerCase(a[k].s) \notin DictWords
                     /\ Formable(toLowerCase(a[k].s), h.dailyLetters))
                        => toLowerCase(a[k].s) \in h.validatedWords

\* C9: a submission with more than 200 entries in foundWords is rejected
\* with a client error before any word is scored, and no row is inserted.
C9_OversizedRejected ==
    \A r \in Reqs :
        (/\ handlers[r].kind = "score"
         /\ isArray(handlers[r].foundWords)
         /\ Len(handlers[r].foundWords.a) > 200) =>
            /\ handlers[r].status = 400
            /\ handlers[r].validatedWords = {}
            /\ handlers[r].serverCalculatedScore = 0
            /\ RowsBy(r) = {}

\* C10: a non-string entry of foundWords is skipped: the loop goes on, the
\* string entries are scored as if it were absent, and the submission is
\* persisted and answered 201 unless the store fails.
C10_NonStringSkipped ==
    \A r \in Reqs :
        (Admitted(r) /\ ~AllStrings(handlers[r].foundWords.a)) =>
            LET h == handlers[r]
                counted == {w \in DistinctGoodWords(h.foundWords.a, h.dailyLetters) :
                               revision = "sqlite" => Len(w) >= 3}
            IN  /\ h.err # "TypeError"
                /\ h.pc # "hung"
                /\ serverUp
                /\ h.serverCalculatedScore = SumLen(counted)
                /\ (h.pc = "done" /\ h.err = "none") =>
                      (h.status = 201 /\ RowsBy(r) # {})

\* C11: a submission without a name, or whose foundWords is not an array, is
\* answered 400, once; the step that rejects it leaves the scores table as it
\* was, and no row of that request is ever in the table.
C11_RejectionLeavesStore ==
    /\ [](\A r \in Reqs :
            Malformed(r) => /\ handlers[r].status = 400
                            /\ handlers[r].sent = 1
                            /\ handlers[r].pc = "done"
                            /\ RowsBy(r) = {})
    /\ [][\A r \in Reqs : (handlers[r].pc = "idle" /\ Malformed(r)') => scores' = scores]_vars

\* a body without foundWords was rejected in a run in which the row of an
\* earlier request went into the table
C11_Witness ==
    \E r1 \in Reqs : \E r2 \in Reqs :
        /\ r1 < r2
        /\ RowsBy(r1) # {}
        /\ handlers[r2].foundWords = Undefined /\ handlers[r2].name = bo
        /\ handlers[r2].status = 400
        /\ Len(scores) = MaxStored + 1

\* C12: once the store has failed the insert of a submission, the submission
\* is answered 500 and nothing else, no validatedScore goes out, the table
\* never holds a row of it, and the handler sends no second query: it only
\* goes on to its response.
C12_InsertFailureIs500 ==
    /\ [](\A r \in Reqs :
            InsertFailed(r) => /\ RowsBy(r) = {}
                               /\ handlers[r].status \in {0, 500}
                               /\ handlers[r].validatedScore = 0
                               /\ handlers[r].pc = "done" =>
                                     (handlers[r].status = 500 /\ handlers[r].sent = 1))
    /\ [][\A r \in Reqs :
            InsertFailed(r) => /\ handlers'[r].pc \in {"failed", "done"}
                               /\ handlers[r].pc = "done" => handlers'[r] = handlers[r]]_vars

\* one submission was answered 500 after its insert failed, another 201
C12_Witness ==
    \E r1 \in Reqs : \E r2 \in Reqs :
        /\ InsertFailed(r1) /\ handlers[r1].status = 500 /\ handlers[r1].serverCalculatedScore > 0
        /\ handlers[r2].status = 201

\* C13: the rows a leaderboard request is answered with are rows of the date
\* the handler read, each once, in order of non-increasing score, at most 20
\* and as many as that date has up to 20; no row of that date the select left
\* out has a higher score than a row it returned.
C13_LeaderboardTopTwenty ==
    \A r \in Reqs :
        Listed(r) =>
            LET rows == handlers[r].rows
                todays == {k \in 1..handlers[r].seen : scores[k].date = handlers[r].today}
                listed == {rows[i] : i \in 1..Len(rows)}
            IN  /\ Len(rows) <= 20
                /\ listed \subseteq todays
                /\ Cardinality(listed) = Len(rows)
                /\ \A i \in 1..Len(rows) : \A j \in 1..Len(rows) :
                      i < j => scores[rows[i]].score >= scores[rows[j]].score
                /\ \A k \in todays \ listed : \A m \in listed :
                      scores[k].score <= scores[m].score
                /\ Cardinality(todays) >= 20 => Len(rows) = 20
                /\ Cardinality(todays) < 20 => listed = todays

\* a request was answered with 20 of the more than 20 rows of its date, the
\* row of a submission of this run among them
C13_Witness ==
    \E r \in Reqs : \E q \in Reqs :
        /\ Listed(r)
        /\ Len(handlers[r].rows) = 20
        /\ Cardinality({k \in 1..handlers[r].seen : scores[k].date = handlers[r].today}) > 20
        /\ \E i \in 1..20 : handlers[r].rows[i] \in RowsBy(q)

\* C14: a submission whose name is empty once trimmed is answered 400 and
\* leaves no row; the row of an accepted submission holds the trimmed name.
C14_NameTrimmed ==
    \A r \in Reqs :
        (handlers[r].kind = "score" /\ handlers[r].name.t = "string") =>
            /\ Trimmed(handlers[r].name.s) = <<>> =>
                  (handlers[r].status = 400 /\ RowsBy(r) = {})
            /\ \A k \in RowsBy(r) : scores[k].name = Trimmed(handlers[r].name.s)

\* C15: isDailySetValid(letters) is true exactly when the dictionary holds a
\* word of at least 5 characters that is formable from letters, whatever the
\* order the dictionary was loaded in; words shorter than 5 count for nothing.
C15_ValidIffLongFormableWord ==
    callResult # <<>> =>
        callResult[1] = (\E w \in DictWords : Len(w) >= 5 /\ Formable(w, callLetters))

\* T A E C O M H D G was found valid by the last word of a dictionary whose
\* first word is short and formable and whose second is long and not formable
C15_Witness ==
    /\ comprehensiveDict = <<coat, hotdog, comet>>
    /\ callLetters = <<"T","A","E","C","O","M","H","D","G">>
    /\ callResult = <<TRUE>>

\* C16: a submission has a row only if it passed the payload check and its
\* scoring loop ran to the end; it never has two rows; the 201 is sent in a
\* step that finds the row already in the table, and a submission answered
\* 201 has exactly one row, whose score is the validatedScore of the response.
C16_RespondsAfterInsert ==
    /\ [](\A r \in Reqs :
            handlers[r].kind = "score" =>
                /\ Cardinality(RowsBy(r)) <= 1
                /\ RowsBy(r) # {} => (~Malformed(r) /\ handlers[r].err # "TypeError")
                /\ handlers[r].status = 201 =>
                      /\ Cardinality(RowsBy(r)) = 1
                      /\ handlers[r].sent = 1
                      /\ \A k \in RowsBy(r) :
                            scores[k].score = handlers[r].validatedScore)
    /\ [][\A r \in Reqs :
            (handlers[r].status # 201 /\ handlers'[r].status = 201) =>
                (RowsBy(r) # {} /\ scores' = scores)]_vars

\* two submissions were answered 201 with different scores, each with its row
C16_Witness ==
    \E r1 \in Reqs : \E r2 \in Reqs :
        /\ handlers[r1].status = 201 /\ handlers[r2].status = 201
        /\ handlers[r1].validatedScore > handlers[r2].validatedScore
        /\ handlers[r2].validatedScore > 0
        /\ RowsBy(r1) # {} /\ RowsBy(r2) # {}

\* C17: whatever other requests are in flight, the score a submission
\* computes, stores and returns is the one its own words earn on the
\* LetterSet of its day; its row carries its own name; and every step leaves
\* the rows already in the table in place and unchanged.
C17_SubmissionsDoNotInterfere ==
    /\ [](\A r \in Reqs :
            Scored(r) =>
                LET h == handlers[r]
                    counted == {w \in DistinctGoodWords(h.foundWords.a, LettersOfDay(h.seed)) :
                                   revision = "sqlite" => Len(w) >= 3}
                IN  /\ h.serverCalculatedScore = SumLen(counted)
                    /\ h.validatedWords = counted
                    /\ h.status = 201 => h.validatedScore = SumLen(counted)
                    /\ \A k \in RowsBy(r) : /\ scores[k].score = SumLen(counted)
                                             /\ scores[k].name = h.name.s)
    /\ [][/\ Len(scores') >= Len(scores)
          /\ \A k \in 1..Len(scores) : scores'[k] = scores[k]]_vars

\* two submissions with different words were in flight together: the row of
\* the later one went into the table first, and both were answered 201
C17_Witness ==
    \E r1 \in Reqs : \E r2 \in Reqs :
        /\ r1 < r2
        /\ handlers[r1].foundWords # handlers[r2].foundWords
        /\ handlers[r1].status = 201 /\ handlers[r2].status = 201
        /\ \E k1 \in RowsBy(r1) : \E k2 \in RowsBy(r2) : k2 < k1

\* C18: no submission is answered twice, and a submission whose handler has
\* come to its end, or whose process has exited, has been answered once, with
\* 400, 201 or 500, whatever its foundWords holds.
C18_EverySubmissionAnswered ==
    \A r \in Reqs :
        handlers[r].kind = "score" =>
            /\ handlers[r].sent <= 1
            /\ (handlers[r].pc \in {"done", "hung"} \/ ~serverUp) =>
                  /\ handlers[r].sent = 1
                  /\ handlers[r].status \in {400, 201, 500}

\* C19: the date in the row of a submission is the date that seeded the
\* LetterSet the submission was scored against, also when the clock passes
\* midnight while the request is handled.
C19_RowDateIsSeedDate ==
    \A r \in Reqs : \A k \in RowsBy(r) : scores[k].date = handlers[r].seed

\* C20: the calls of canMakeWord made by the validity scan and by the
\* scoring loop leave the array dailyLetters as generateLetters returned it:
\* after any number of words tested or accepted it still holds the 9 letters
\* of the last attempt, in their places, and the GET answers with them.
C20_PoolNeverDepleted ==
    \A r \in Reqs :
        RanLoop(r) =>
            LET h == handlers[r]
                last == h.generated[Len(h.generated)].letters
            IN  /\ Len(h.dailyLetters) = 9
                /\ h.dailyLetters = last
                /\ h.kind = "challenge" => h.letters = last

\* "cat" and "at" were both accepted from a LetterSet with one A and one T,
\* after the validity scan had found "comet" in it
C20_Witness ==
    \E r \in Reqs :
        /\ Scored(r)
        /\ {cat, at} \subseteq handlers[r].validatedWords
        /\ isDailySetValid(handlers[r].dailyLetters)
        /\ Count("A", handlers[r].dailyLetters) = 1
        /\ Count("T", handlers[r].dailyLetters) = 1

=============================================================================
